---- MODULE Spec2Model ----
(***************************************************************************)
(* Face Replacement Demo: the session state machine (Start / Capture /     *)
(* Save / Reset), the frame delivery (Camera helper, getUserMedia loop),   *)
(* the detector callback and the composite pass of main.js, and of the     *)
(* earlier draft of the same module (src/unnamed/part_000).                *)
(*                                                                         *)
(* JavaScript runs handlers to completion; a handler is split into one     *)
(* action per stretch between two awaits on an external event (fetch,      *)
(* image load, camera start, getUserMedia, play, detector send, toBlob).   *)
(* Every handler is a function on a snapshot W of the variables; an action *)
(* commits the snapshot its handler returns.                               *)
(***************************************************************************)
EXTENDS Integers, Sequences, FiniteSets, TLC

\* Bounds of the model (not program constants).
MaxStarts == 2      \* Start clicks in one run (each click opens a session id)
MaxStreams == 2     \* media streams the platform hands out in one run

\* Number of entries of `attempts` in startCamera.
NumAttempts == 3

VARIABLES
  build,         \* "main" (src/main.js) or "draft" (src/unnamed/part_000)
  env,           \* the page: is the Camera global defined, do Start's guards pass
  state,         \* the `state` object: meta, faceMesh, camera, running, capturedUrl
  els,           \* buttons' disabled flags, banner text, video.srcObject
  surface,       \* content of the preview canvas, as the layers drawn, in order
  ctx,           \* drawing state of the 2d context: transform and compositing mode
  baseImg,       \* "loading" | "ok" | "broken"   (img.complete is true unless loading)
  maskImg,
  lastGumError,  \* name of the last caught acquisition error, "null" at first
  pc,            \* where the Start handler is suspended, and the attempts index
  sid,           \* number of Start clicks so far; the id of the latest session
  drv,           \* per session: the frame driver it started and where it is
  live,          \* ids of the media streams whose tracks are not stopped
  nextStream,    \* id the next acquired stream gets
  pendingBlob,   \* "none", or what toBlob has yet to deliver: "blob" or "null"
  lastEvt,       \* history: what the last handler did
  hist,          \* history: session phase, the current Start attempt, capture snapshot
  geo,           \* the numbers of one composite pass: its inputs, then what it computed
  sw             \* the service worker (sw.js): its phase, the origin's caches, its last answer

vars == <<build, env, state, els, surface, ctx, baseImg, maskImg, lastGumError,
          pc, sid, drv, live, nextStream, pendingBlob, lastEvt, hist, geo, sw>>

Sessions == 1..MaxStarts
Builds == {"main", "draft"}
ImgStates == {"loading", "ok", "broken"}
Results == {"noface", "face"}
ErrorNames == {"NotAllowedError", "NotFoundError", "NotReadableError", "OtherError"}

\* The snapshot of the variables a handler works on; threw is the handler's
\* pending exception (not a variable).
W ==
  [build |-> build, env |-> env, state |-> state, els |-> els, surface |-> surface,
   ctx |-> ctx, baseImg |-> baseImg, maskImg |-> maskImg,
   lastGumError |-> lastGumError, pc |-> pc, sid |-> sid, drv |-> drv,
   live |-> live, nextStream |-> nextStream, pendingBlob |-> pendingBlob,
   lastEvt |-> lastEvt, hist |-> hist, threw |-> FALSE]

Commit(w) ==
  /\ build' = w.build
  /\ env' = w.env
  /\ state' = w.state
  /\ els' = w.els
  /\ surface' = w.surface
  /\ ctx' = w.ctx
  /\ baseImg' = w.baseImg
  /\ maskImg' = w.maskImg
  /\ lastGumError' = w.lastGumError
  /\ pc' = w.pc
  /\ sid' = w.sid
  /\ drv' = w.drv
  /\ live' = w.live
  /\ nextStream' = w.nextStream
  /\ pendingBlob' = w.pendingBlob
  /\ lastEvt' = w.lastEvt
  /\ hist' = w.hist
  /\ UNCHANGED <<geo, sw>>

\* History record of one handler run.
Evt(kind) ==
  [kind |-> kind, sess |-> 0, res |-> "none", drew |-> FALSE, sent |-> FALSE,
   threw |-> FALSE, surfKept |-> TRUE, ctxKept |-> TRUE, cause |-> "none",
   denied |-> FALSE, active |-> FALSE, blob |-> << >>]

\* History of the Start attempt in progress: did an acquisition succeed, did
\* one fail other than by NotAllowedError, was a frame sent, a pass run.
NoAttempt == [gumOk |-> FALSE, otherErr |-> FALSE, sent |-> FALSE, drew |-> FALSE]

----------------------------------------------------------------------------
(* The 2d context and the canvas.                                          *)

CleanCtx == [xform |-> "identity", gco |-> "source-over"]
Blank == << >>

\* A layer drawn through a context in any other state than the one its draw
\* call is written for lands misplaced or wrongly blended.
Misdrawn(layer) ==
  CASE layer = "bg" -> "bgX"
    [] layer = "guide" -> "guideX"
    [] layer = "roi" -> "roiX"
    [] layer = "mask" -> "maskX"

DrawLayer(s, c, layer, want) ==
  Append(s, IF c = want THEN layer ELSE Misdrawn(layer))

\* ctx.clearRect(0, 0, width, height): the rectangle goes through the current
\* transform; it covers the canvas only under the identity.
ClearRect(s, c) ==
  IF c.xform = "identity" \/ s = Blank THEN Blank ELSE <<"stale">>

\* translate(dMid), rotate(angle), scale(scale), translate(-roiSize/2) on top
\* of the transform in force.
SlotTransform(c) ==
  [c EXCEPT !.xform = IF c.xform = "identity" THEN "slot" ELSE "compound"]

\* fitPreviewCanvas: assigning canvas.width / canvas.height clears the bitmap
\* and resets the context to its default state.
fitPreviewCanvas(w) == [w EXCEPT !.surface = Blank, !.ctx = CleanCtx]

----------------------------------------------------------------------------
(* The composite pass.                                                     *)

\* drawImage(img, ...) with an image element: a broken image raises
\* InvalidStateError, an image not yet loaded draws nothing.
ImageThrows(img) == img = "broken"

\* main.js draws the background only `if (baseImg.complete)`; the draft
\* calls drawImage unguarded. Either way the call is reached unless the
\* image is still loading in main.js, where it then draws nothing anyway.
DrawBaseReached(w) == w.build = "draft" \/ w.baseImg # "loading"

\* drawSlotGuide: main.js only, and only with state.meta loaded; save() and
\* restore() around the stroke leave the context as it was.
drawSlotGuide(w, s) ==
  IF w.build = "main" /\ w.state.meta
  THEN DrawLayer(s, w.ctx, "guide", CleanCtx)
  ELSE s

\* The early return on an absent or empty multiFaceLandmarks.
NoLandmarks(r) == r = "noface"

\* The ROI and mask draws between ctx.save() and ctx.restore(): s is the
\* surface so far, w.ctx the context at save().
placeFaceIntoSlot(w, s) ==
  LET t == SlotTransform(w.ctx)
      want == SlotTransform(CleanCtx)
      withRoi == DrawLayer(s, t, "roi", want)
      din == [t EXCEPT !.gco = "destination-in"]
      wantDin == [want EXCEPT !.gco = "destination-in"]
  IN IF w.maskImg = "loading"
     THEN \* maskImg.complete is false: no mask; restore()
          [w EXCEPT !.surface = withRoi]
     ELSE IF ImageThrows(w.maskImg)
     THEN \* drawImage(maskImg) raises: neither the reset of the mode nor
          \* restore() is reached
          [w EXCEPT !.surface = withRoi, !.ctx = din, !.threw = TRUE]
     ELSE \* destination-in keeps the surface only under the mask; the mode is
          \* set back and restore() pops the state saved at save()
          [w EXCEPT !.surface = DrawLayer(withRoi, din, "mask", wantDin)]

drawComposite(w, r) ==
  LET cleared == ClearRect(w.surface, w.ctx)
  IN IF DrawBaseReached(w) /\ ImageThrows(w.baseImg)
     THEN [w EXCEPT !.surface = cleared, !.threw = TRUE]
     ELSE
       LET withBase == IF w.baseImg = "ok"
                       THEN DrawLayer(cleared, w.ctx, "bg", CleanCtx)
                       ELSE cleared
           withGuide == drawSlotGuide(w, withBase)
       IN IF NoLandmarks(r)
          THEN [w EXCEPT !.surface = withGuide]
          ELSE IF ~w.state.meta
          THEN \* scalePt / state.meta.slot on a null meta: TypeError
               [w EXCEPT !.surface = withGuide, !.threw = TRUE]
          ELSE placeFaceIntoSlot(w, withGuide)

\* A complete frame drawn through a context in its default state.
BackgroundGuide == <<"bg", "guide">>
FullFrame == <<"bg", "guide", "roi", "mask">>

\* Mutant of onResultsDraws: the listener without its test of the flag.
onResultsDraws_Always(w) == TRUE

\* The detector's results listener: main.js returns when not running; the
\* draft records the result and draws when running.
onResultsDraws(w) == w.state.running

onResults(w, r) ==
  IF onResultsDraws(w)
  THEN LET d == drawComposite(w, r)
       IN [d EXCEPT !.lastEvt.res = r, !.lastEvt.drew = TRUE,
                    !.lastEvt.threw = d.threw,
                    !.lastEvt.surfKept = (d.surface = w.surface),
                    !.lastEvt.ctxKept = (d.ctx = w.ctx),
                    !.hist.att.drew = IF w.pc.at # "idle" THEN TRUE ELSE @]
  ELSE [w EXCEPT !.lastEvt.res = r]

----------------------------------------------------------------------------
(* The Start handler.                                                      *)

Idle == [at |-> "idle", attempt |-> 0]

\* The catch block of the Start handler. main.js clears state.running
\* there; the draft does not.
StartCatch(w, why) ==
  [w EXCEPT !.els.banner = "Error",
            !.els.startBtn = FALSE,
            !.state.running = IF w.build = "main" THEN FALSE ELSE @,
            !.pc = Idle,
            !.hist.phase = "Idle",
            !.hist.att = NoAttempt,
            !.lastEvt.kind = "startError",
            !.lastEvt.cause = why]

\* Mutant of CameraFailMessage: the NotReadableError branch is missing.
CameraFailMessage_NoInUse(err) ==
  CASE err = "NotAllowedError" -> "permission"
    [] err = "NotFoundError" -> "not-found"
    [] OTHER -> "unknown"

\* The message chosen from lastGumError.name when startCamera returned false.
CameraFailMessage(err) ==
  CASE err = "NotAllowedError" -> "permission"
    [] err = "NotFoundError" -> "not-found"
    [] err = "NotReadableError" -> "in-use"
    [] OTHER -> "unknown"

\* `if (!ok) { ... return; }` of main.js.
StartFail(w) ==
  [w EXCEPT !.els.banner = CameraFailMessage(w.lastGumError),
            !.els.startBtn = FALSE,
            !.state.running = FALSE,
            !.pc = Idle,
            !.hist.phase = "Idle",
            !.hist.att = NoAttempt,
            !.lastEvt.kind = "cameraFail",
            !.lastEvt.denied = (~w.hist.att.gumOk /\ ~w.hist.att.otherErr),
            !.lastEvt.active = (w.hist.att.sent \/ w.hist.att.drew)]

\* The tail of the Start handler once the camera is started.
StartOk(w) ==
  [w EXCEPT !.els.captureBtn = FALSE,
            !.els.resetBtn = FALSE,
            !.els.banner = "Align",
            !.pc = Idle,
            !.hist.phase = "Running",
            !.hist.att = NoAttempt,
            !.lastEvt.kind = "started"]

\* A rejected getUserMedia or play() in startCamera. main.js records the error
\* and goes on to the next entry of `attempts`, returning false after the last;
\* the draft lets it propagate to the Start handler's catch.
AcquireFailed(w, err) ==
  LET noted == [w EXCEPT !.hist.att.otherErr = @ \/ err # "NotAllowedError",
                         !.lastEvt.cause = err]
  IN IF w.build = "draft"
     THEN StartCatch(noted, err)
     ELSE LET v == [noted EXCEPT !.lastGumError = err]
          IN IF w.pc.attempt < NumAttempts
             THEN [v EXCEPT !.pc = [at |-> "gum", attempt |-> w.pc.attempt + 1],
                            !.lastEvt.kind = "attemptFailed"]
             ELSE StartFail(v)

\* startCamera after the images: main.js refits the canvas; then the Camera
\* helper when the global is defined, else getUserMedia.
AfterImages(w) ==
  LET v == IF w.build = "main" THEN fitPreviewCanvas(w) ELSE w
  IN IF w.env.Camera
     THEN [v EXCEPT !.state.camera = TRUE, !.pc = [at |-> "helper", attempt |-> 0],
                    !.lastEvt.kind = "acquiring"]
     ELSE [v EXCEPT !.pc = [at |-> "gum", attempt |-> 1],
                    !.lastEvt.kind = "acquiring"]

\* waitImage resolves at once for an image whose `complete` is true, which a
\* broken image's is; otherwise it waits for onload / onerror.
waitImageSettled(img) == img # "loading"

\* From `if (!state.faceMesh) await initFaceMesh()` to the first await of
\* startCamera. The draft sizes the canvas before it waits for the images.
StartArmed(w) ==
  LET v == [w EXCEPT !.state.faceMesh = TRUE, !.state.running = TRUE]
      u == IF w.build = "draft" THEN fitPreviewCanvas(v) ELSE v
  IN IF waitImageSettled(w.baseImg) /\ waitImageSettled(w.maskImg)
     THEN AfterImages(u)
     ELSE [u EXCEPT !.pc = [at |-> "images", attempt |-> 0],
                    !.lastEvt.kind = "waitingImages"]

\* The guards at the top of the Start handler: the secure-context test, and in
\* main.js the test for navigator.mediaDevices.getUserMedia.
StartGuardsPass(w) == w.env.guards

\* Mutant of NeedsMeta: the SlotSpec is fetched on every Start.
NeedsMeta_Always(w) == TRUE

\* `if (!state.meta) state.meta = await loadMeta(...)`: the fetch is made
\* only while state.meta is null.
NeedsMeta(w) == ~w.state.meta

startBtnClick(w) ==
  LET v == [w EXCEPT !.els.startBtn = TRUE,
                     !.els.banner = "Initializing",
                     !.sid = w.sid + 1,
                     !.hist.att = NoAttempt,
                     !.hist.afterReset = FALSE,
                     !.hist.phase = "Starting",
                     !.hist.streams = {},
                     !.lastEvt = Evt("startClick")]
  IN IF ~StartGuardsPass(w)
     THEN StartCatch(v, "guard")
     ELSE IF NeedsMeta(w)
     THEN [v EXCEPT !.pc = [at |-> "meta", attempt |-> 0]]
     ELSE StartArmed(v)

\* loadMeta settles: a response that is not ok, or a failed fetch, throws.
loadMetaDone(w, ok) ==
  LET v == [w EXCEPT !.lastEvt = Evt("metaDone")]
  IN IF ok
     THEN StartArmed([v EXCEPT !.state.meta = TRUE])
     ELSE StartCatch(v, "meta")

\* An image's load or error event. A Start handler waiting on the images goes
\* on when both have settled, and fails on an error event.
imageEvent(w, which, ok) ==
  LET st == IF ok THEN "ok" ELSE "broken"
      v == IF which = "base"
           THEN [w EXCEPT !.baseImg = st, !.lastEvt = Evt("imageEvent")]
           ELSE [w EXCEPT !.maskImg = st, !.lastEvt = Evt("imageEvent")]
  IN IF w.pc.at # "images"
     THEN v
     ELSE IF ~ok
     THEN StartCatch(v, "image")
     ELSE IF waitImageSettled(v.baseImg) /\ waitImageSettled(v.maskImg)
     THEN AfterImages(v)
     ELSE v

----------------------------------------------------------------------------
(* Camera acquisition and frame delivery.                                  *)

\* A stream the platform hands out is attached to the video element: by
\* `els.video.srcObject = stream`, or by the Camera helper, which attaches the
\* stream it acquires to the video element it was given.
attachStream(w) ==
  [w EXCEPT !.live = @ \cup {w.nextStream},
            !.nextStream = w.nextStream + 1,
            !.els.srcObject = w.nextStream,
            !.hist.streams = @ \cup {w.nextStream},
            !.hist.att.gumOk = TRUE]

\* faceMesh.send({image: els.video}) is called.
sendFrame(w, s, sending) ==
  [w EXCEPT !.drv[s] = sending,
            !.lastEvt.sent = TRUE,
            !.hist.att.sent = IF w.pc.at # "idle" THEN TRUE ELSE @]

\* `await state.camera.start()` settles. main.js catches a failure and falls
\* back to getUserMedia; the draft has no try around it.
cameraStartDone(w, outcome) ==
  LET v == [w EXCEPT !.lastEvt = Evt("cameraStartDone")]
  IN IF outcome = "ok"
     THEN StartOk([attachStream(v) EXCEPT !.drv[w.sid] = "helperIdle"])
     ELSE LET u == [v EXCEPT !.hist.att.otherErr = @ \/ outcome # "NotAllowedError",
                             !.lastEvt.cause = outcome]
          IN IF w.build = "draft"
             THEN StartCatch(u, outcome)
             ELSE [u EXCEPT !.pc = [at |-> "gum", attempt |-> 1],
                            !.lastEvt.kind = "helperFailed"]

\* `await navigator.mediaDevices.getUserMedia(constraints)` settles.
getUserMediaDone(w, outcome) ==
  LET v == [w EXCEPT !.lastEvt = Evt("getUserMediaDone")]
  IN IF outcome = "ok"
     THEN [attachStream(v) EXCEPT !.pc.at = "play"]
     ELSE AcquireFailed(v, outcome)

\* The loop's test of the running flag before it sends a frame.
loopMaySend(w) == w.state.running

\* `await els.video.play()` settles. main.js calls loop() at once, the draft
\* hands it to requestAnimationFrame.
playDone(w, outcome) ==
  LET v == [w EXCEPT !.lastEvt = Evt("playDone")]
  IN IF outcome # "ok"
     THEN AcquireFailed(v, outcome)
     ELSE IF w.build = "draft"
     THEN StartOk([v EXCEPT !.drv[w.sid] = "loopPending"])
     ELSE IF loopMaySend(v)
     THEN StartOk(sendFrame(v, w.sid, "loopSending"))
     ELSE StartOk([v EXCEPT !.drv[w.sid] = "loopEnded"])

\* A pending requestVideoFrameCallback / requestAnimationFrame callback of
\* session s's loop fires.
loopCallback(w, s) ==
  LET v == [w EXCEPT !.lastEvt = [Evt("loopCallback") EXCEPT !.sess = s]]
  IN IF loopMaySend(v)
     THEN sendFrame(v, s, "loopSending")
     ELSE [v EXCEPT !.drv[s] = "loopEnded"]

\* onFrame of the Camera helper: main.js sends when running, the draft always.
onFrameMaySend(w) == w.build = "draft" \/ w.state.running

onFrame(w, s) ==
  LET v == [w EXCEPT !.lastEvt = [Evt("onFrame") EXCEPT !.sess = s]]
  IN IF onFrameMaySend(v)
     THEN sendFrame(v, s, "helperSending")
     ELSE v

Sending == {"loopSending", "helperSending"}

\* Mutant of DriverAfterSend: the send stays in flight and delivers again.
DriverAfterSend_StillSending(d, ended) == d

\* Where a driver is once its send has settled: the loop requests its next
\* callback, the helper is ready for its next frame; a driver whose await
\* raised has ended.
DriverAfterSend(d, ended) ==
  IF d = "loopSending"
  THEN (IF ended THEN "loopEnded" ELSE "loopPending")
  ELSE (IF ended THEN "helperEnded" ELSE "helperIdle")

\* A send of session s's driver completes: the detector calls the results
\* listener, then the awaiting loop or onFrame goes on. When the listener
\* throws, the library either passes the exception on to the awaiting caller,
\* which ends there, or swallows it (goesOn).
sendDone(w, s, r, goesOn) ==
  LET v == onResults([w EXCEPT !.lastEvt = [Evt("result") EXCEPT !.sess = s]], r)
      ended == v.threw /\ ~goesOn
  IN [v EXCEPT !.drv[s] = DriverAfterSend(w.drv[s], ended)]

----------------------------------------------------------------------------
(* Capture, Save, Reset, resize.                                           *)

captureBtnClick(w) ==
  [w EXCEPT !.els.saveBtn = FALSE,
            !.els.banner = "Captured",
            !.hist.phase = IF @ \in {"Running", "Captured"} THEN "Captured" ELSE @,
            !.hist.atCapture = w.surface,
            !.lastEvt = Evt("capture")]

NullBlob == <<"null">>

\* Mutant of ExportSource: Save encodes the frame frozen at Capture.
ExportSource_AtCapture(w) == w.hist.atCapture

\* canvas.toBlob encodes the bitmap as it is when toBlob is called; the
\* model keeps the encoded content in the history of the Save click.
ExportSource(w) == w.surface

\* The Save handler up to `await exportPNG()`: the encoder throws, or will
\* deliver a blob or null.
saveBtnClick(w, outcome) ==
  LET v == [w EXCEPT !.lastEvt = Evt("save")]
  IN IF outcome = "throw"
     THEN [v EXCEPT !.els.banner = "Save failed", !.lastEvt.threw = TRUE]
     ELSE [v EXCEPT !.pendingBlob = outcome,
                    !.lastEvt.blob = IF outcome = "blob" THEN ExportSource(w) ELSE NullBlob]

\* The toBlob callback: `if (!blob) return;`, else the download.
toBlobDone(w) ==
  LET v == [w EXCEPT !.pendingBlob = "none", !.lastEvt = Evt("saved")]
  IN IF w.pendingBlob = "null"
     THEN [v EXCEPT !.lastEvt.res = "null"]
     ELSE [v EXCEPT !.state.capturedUrl = TRUE, !.els.banner = "Saved"]

\* Mutant of ResetButtons: Reset leaves Save as it is.
ResetButtons_KeepSave(e) ==
  [e EXCEPT !.captureBtn = TRUE, !.resetBtn = TRUE, !.startBtn = FALSE]

\* The buttons as Reset leaves them.
ResetButtons(e) ==
  [e EXCEPT !.captureBtn = TRUE, !.saveBtn = TRUE, !.resetBtn = TRUE,
            !.startBtn = FALSE]

\* The tracks Reset stops: those of the stream attached to the video element.
ResetStops(w) == {w.els.srcObject}

resetBtnClick(w) ==
  [w EXCEPT !.state.running = FALSE,
            !.live = @ \ ResetStops(w),
            !.els = [ResetButtons(@) EXCEPT !.srcObject = 0, !.banner = "Reset"],
            !.surface = ClearRect(w.surface, w.ctx),
            !.hist.phase = "Idle",
            !.hist.afterReset = TRUE,
            !.hist.atCapture = Blank,
            !.lastEvt = Evt("reset")]

\* The resize and visibilitychange listeners of main.js.
windowResize(w) == [fitPreviewCanvas(w) EXCEPT !.lastEvt = Evt("resize")]

----------------------------------------------------------------------------
(* The numbers of the composite pass: the transform solver and the region  *)
(* sampler of drawComposite (main.js) and placeFaceIntoSlot (draft).       *)
(*                                                                         *)
(* Lengths and coordinates are whole numbers of eighths of a pixel, so     *)
(* that sub-pixel eye distances and fractional ROI sides are values of the *)
(* model. A scale is a fraction [num, den]. An angle is q quarter turns    *)
(* plus a times the angle of the vector (4, 3), which is exact for the     *)
(* vectors the inputs are drawn from (axis-parallel or of shape 3-4-5).    *)

\* n pixels in model units.
Px(n) == n * 8

Pt(x, y) == [x |-> x, y |-> y]

Abs(n) == IF n < 0 THEN -n ELSE n

RECURSIVE RootBelow(_, _, _)
\* The largest r in lo..hi with r * r <= n.
RootBelow(n, lo, hi) ==
  IF lo >= hi THEN lo
  ELSE LET mid == (lo + hi + 1) \div 2
       IN IF mid * mid <= n THEN RootBelow(n, mid, hi) ELSE RootBelow(n, lo, mid - 1)

\* Math.hypot, to the unit; exact for the vectors of the inputs' eye pairs.
Hypot(dx, dy) == RootBelow(dx * dx + dy * dy, 0, Abs(dx) + Abs(dy))

\* Math.atan2(dy, dx) of an axis-parallel or 3-4-5 vector; atan2(0, 0) is 0.
Atan2(dy, dx) ==
  CASE dx = 0 /\ dy = 0 -> [q |-> 0, a |-> 0]
    [] dy = 0 /\ dx > 0 -> [q |-> 0, a |-> 0]
    [] dx = 0 /\ dy > 0 -> [q |-> 1, a |-> 0]
    [] dy = 0 /\ dx < 0 -> [q |-> 2, a |-> 0]
    [] dx = 0 /\ dy < 0 -> [q |-> -1, a |-> 0]
    [] 3 * Abs(dx) = 4 * Abs(dy) /\ dx > 0 /\ dy > 0 -> [q |-> 0, a |-> 1]
    [] 3 * Abs(dx) = 4 * Abs(dy) /\ dx < 0 /\ dy > 0 -> [q |-> 2, a |-> -1]
    [] 3 * Abs(dx) = 4 * Abs(dy) /\ dx > 0 /\ dy < 0 -> [q |-> 0, a |-> -1]
    [] 3 * Abs(dx) = 4 * Abs(dy) /\ dx < 0 /\ dy < 0 -> [q |-> -2, a |-> 1]
    [] 4 * Abs(dx) = 3 * Abs(dy) /\ dx > 0 /\ dy > 0 -> [q |-> 1, a |-> -1]
    [] 4 * Abs(dx) = 3 * Abs(dy) /\ dx < 0 /\ dy > 0 -> [q |-> 1, a |-> 1]
    [] 4 * Abs(dx) = 3 * Abs(dy) /\ dx > 0 /\ dy < 0 -> [q |-> -1, a |-> 1]
    [] 4 * Abs(dx) = 3 * Abs(dy) /\ dx < 0 /\ dy < 0 -> [q |-> -1, a |-> -1]

AngleSub(m, n) == [q |-> m.q - n.q, a |-> m.a - n.a]

\* `x || 1` on a length: 0 is the only falsy length.
OrOne(d) == IF d = 0 THEN Px(1) ELSE d

\* Assigning a number to canvas.width / canvas.height keeps its whole pixels.
CanvasDim(side) == (side \div Px(1)) * Px(1)

\* A SlotSpec's roi_scale is held in halves, and 0 when the field is absent;
\* so is preview, (0, 0) when absent.
NotGiven == 0
NoPreview == Pt(0, 0)

\* `state.meta.slot.roi_scale || 1.5`, in halves.
roiScaleOf(meta) == IF meta.roi_scale = NotGiven THEN 3 ELSE meta.roi_scale

\* fitPreviewCanvas in a window taller than the canvas: the canvas is cssW
\* wide and round(cssW * aspect) high, aspect from meta.preview or 960 / 720.
\* The draft sizes the canvas to meta.preview, or to 720 x 960.
canvasOf(b, meta, innerWidth) ==
  IF b = "draft"
  THEN (IF meta.preview = NoPreview THEN Pt(Px(720), Px(960)) ELSE meta.preview)
  ELSE LET cssW == IF innerWidth < Px(1024) THEN innerWidth ELSE Px(1024)
       IN IF meta.preview = NoPreview
          THEN Pt(cssW, (cssW * 960) \div 720)
          ELSE Pt(cssW, (cssW * meta.preview.y) \div meta.preview.x)

\* scalePt: a point of image_size space in canvas space. The draft uses the
\* slot's points as they are.
scalePt(b, meta, canvas, p) ==
  IF b = "draft"
  THEN p
  ELSE Pt((p.x * canvas.x) \div meta.image_size.x,
          (p.y * canvas.y) \div meta.image_size.y)

\* The numbers of one pass for a face with the source anchors `src`.
solvePass(b, meta, canvas, src) ==
  LET dstL == scalePt(b, meta, canvas, meta.eye_left)
      dstR == scalePt(b, meta, canvas, meta.eye_right)
      sdx == src.eyeR.x - src.eyeL.x
      sdy == src.eyeR.y - src.eyeL.y
      ddx == dstR.x - dstL.x
      ddy == dstR.y - dstL.y
      angle == AngleSub(Atan2(ddy, ddx), Atan2(sdy, sdx))
      sDist == OrOne(Hypot(sdx, sdy))
      dDist == IF b = "main" THEN OrOne(Hypot(ddx, ddy)) ELSE Hypot(ddx, ddy)
      \* twice the midpoints, to stay in whole units
      sMid2 == Pt(src.eyeL.x + src.eyeR.x, src.eyeL.y + src.eyeR.y)
      dMid2 == Pt(dstL.x + dstR.x, dstL.y + dstR.y)
      \* main.js: max(64, hypot * roiScale), the side of the square.
      \* draft: max(1, eyeToChin * roiScale), half the side of the square.
      eyeToChin == Hypot((2 * src.chin.x - sMid2.x) \div 2, (2 * src.chin.y - sMid2.y) \div 2)
      roiSize == IF b = "main"
                 THEN LET e == (Hypot(sdx, sdy) * roiScaleOf(meta)) \div 2
                      IN IF e > Px(64) THEN e ELSE Px(64)
                 ELSE LET e == (eyeToChin * roiScaleOf(meta)) \div 2
                      IN IF e > Px(1) THEN e ELSE Px(1)
      side == IF b = "main" THEN roiSize ELSE 2 * roiSize
      off == CanvasDim(side)
  IN [solved |-> TRUE, dstL |-> dstL, dstR |-> dstR, dMid2 |-> dMid2,
      angle |-> angle, scale |-> [num |-> dDist, den |-> sDist],
      sampleSide |-> side,
      sampleOrigin2 |-> Pt(sMid2.x - side, sMid2.y - side),
      offSide |-> off,
      roiDrawSide |-> IF b = "main" THEN roiSize ELSE off,
      maskDrawSide |-> IF b = "main" THEN roiSize ELSE off]

Unsolved == [solved |-> FALSE]

\* The inputs of the passes checked: SlotSpecs, window widths, anchors.
ImageSize == Pt(Px(720), Px(960))
SlotEyes ==
  { <<Pt(Px(300), Px(400)), Pt(Px(450), Px(400))>>,
    <<Pt(Px(300), Px(400)), Pt(Px(420), Px(560))>> }
RoiScales == {NotGiven, 2, 3, 4}
Previews == {NoPreview, Pt(Px(360), Px(480))}
Metas ==
  { [image_size |-> ImageSize, eye_left |-> e[1], eye_right |-> e[2],
     roi_scale |-> r, preview |-> p] : e \in SlotEyes, r \in RoiScales, p \in Previews }
InnerWidths == {Px(360), Px(720)}
SrcEyeLefts == {Pt(Px(100), Px(200)), Pt(Px(100), Px(100))}
SrcVecs ==
  { Pt(Px(100), 0), Pt(0, Px(100)), Pt(0, 0), Pt(4, 0), Pt(2, 0),
    Pt(Px(101), 0), Pt(Px(40), 0), Pt(Px(80), Px(60)), Pt(Px(60), -Px(80)),
    Pt(-Px(100), 0) }
SrcAnchors ==
  { [eyeL |-> l, eyeR |-> Pt(l.x + v.x, l.y + v.y),
     chin |-> Pt(l.x + v.x \div 2, l.y + Px(120))] : l \in SrcEyeLefts, v \in SrcVecs }

----------------------------------------------------------------------------
(* The service worker (sw.js).                                             *)

CACHE_NAME == "face-demo-cache-v1"
ASSETS ==
  { "./", "./index.html", "./style.css", "./main.js", "./manifest.webmanifest",
    "./assets/character_base.png", "./assets/mask_oval.png", "./assets/slot.json" }

\* The worker's record where the page alone is modelled.
NoWorker == [phase |-> "none"]

\* caches.match(request): a match in any cache of the origin.
cachesMatch(c, url) == \E k \in DOMAIN c : url \in c[k]

\* caches.open(CACHE_NAME) creates the cache when it does not exist.
cachesOpen(c, name) ==
  IF name \in DOMAIN c THEN c ELSE [k \in DOMAIN c \cup {name} |-> IF k \in DOMAIN c THEN c[k] ELSE {}]

\* The install listener up to cache.addAll(ASSETS).
installStart(w) ==
  [w EXCEPT !.phase = "installing", !.caches = cachesOpen(w.caches, CACHE_NAME)]

\* cache.addAll settles: it stores every response or, when a request fails,
\* none; waitUntil then lets the install succeed or fail with it.
installDone(w, ok) ==
  IF ok
  THEN [w EXCEPT !.phase = "installed", !.caches[CACHE_NAME] = @ \cup ASSETS]
  ELSE [w EXCEPT !.phase = "redundant"]

\* Mutant of keepsCache: activate deletes no cache.
keepsCache_All(key) == TRUE

\* The activate listener's test: every key but CACHE_NAME is deleted.
keepsCache(key) == key = CACHE_NAME

\* The activate listener: caches.keys(), then a delete per key to drop.
activateStart(w) ==
  [w EXCEPT !.phase = "activating",
            !.todo = {k \in DOMAIN w.caches : ~keepsCache(k)}]

\* One caches.delete(key) settles.
cacheDeleted(w, key) ==
  [w EXCEPT !.caches = [k \in DOMAIN w.caches \ {key} |-> w.caches[k]],
            !.todo = @ \ {key},
            !.removed = @ \cup {key}]

\* Promise.all of the deletes has settled.
activateDone(w) == [w EXCEPT !.phase = "activated"]

\* The fetch listener: the cached response when there is one, else the
\* network's answer.
fetchHandler(w, url, net) ==
  [w EXCEPT !.resp = [url |-> url,
                      from |-> IF cachesMatch(w.caches, url) THEN "cache" ELSE net]]

\* The caches of the origin when the worker is registered: none, or what an
\* earlier version of the worker, or an earlier install of this one, left.
OldCaches ==
  { [k \in names |-> CASE k = CACHE_NAME -> {"./main.js", "./old.js"}
                       [] k = "face-demo-cache-v0" -> {"./main.js", "./other.png"}
                       [] k = "tiles" -> {"./other.png"}] :
      names \in SUBSET {CACHE_NAME, "face-demo-cache-v0", "tiles"} }

Requests ==
  {"./main.js", "./style.css", "./assets/slot.json", "./old.js", "./other.png", "./new.png"}

----------------------------------------------------------------------------
(* The state machine.                                                      *)

\* The page after the script has run: the `state` object as constructed, the
\* images requested, Start the only enabled button, nothing drawn.
PageLoaded ==
  /\ state = [meta |-> FALSE, faceMesh |-> FALSE, camera |-> FALSE,
              running |-> FALSE, capturedUrl |-> FALSE]
  /\ els = [startBtn |-> FALSE, captureBtn |-> TRUE, saveBtn |-> TRUE,
            resetBtn |-> TRUE, banner |-> "", srcObject |-> 0]
  /\ surface = Blank
  /\ ctx = CleanCtx
  /\ baseImg = "loading"
  /\ maskImg = "loading"
  /\ lastGumError = "null"
  /\ pc = Idle
  /\ sid = 0
  /\ drv = [s \in Sessions |-> "none"]
  /\ live = {}
  /\ nextStream = 1
  /\ pendingBlob = "none"
  /\ lastEvt = Evt("init")
  /\ hist = [phase |-> "Idle", afterReset |-> FALSE, att |-> NoAttempt,
             streams |-> {}, atCapture |-> Blank]

Init ==
  /\ build \in Builds
  /\ env \in [Camera : BOOLEAN, guards : BOOLEAN]
  /\ PageLoaded
  /\ geo = Unsolved
  /\ sw = NoWorker

\* What the platform can answer to an acquisition: a stream, while the model
\* has one left, or an error.
Outcomes == {"ok"} \cup ErrorNames
CanAcquire == nextStream <= MaxStreams

StartClick ==
  /\ ~els.startBtn
  /\ sid < MaxStarts
  /\ Commit(startBtnClick(W))

LoadMetaDone ==
  /\ pc.at = "meta"
  /\ \E ok \in BOOLEAN : Commit(loadMetaDone(W, ok))

ImageEvent ==
  \E which \in {"base", "mask"}, ok \in BOOLEAN :
    /\ (IF which = "base" THEN baseImg ELSE maskImg) = "loading"
    /\ Commit(imageEvent(W, which, ok))

CameraStartDone ==
  /\ pc.at = "helper"
  /\ \E o \in Outcomes :
       /\ o = "ok" => CanAcquire
       /\ Commit(cameraStartDone(W, o))

GetUserMediaDone ==
  /\ pc.at = "gum"
  /\ \E o \in Outcomes :
       /\ o = "ok" => CanAcquire
       /\ Commit(getUserMediaDone(W, o))

PlayDone ==
  /\ pc.at = "play"
  /\ \E o \in Outcomes : Commit(playDone(W, o))

LoopCallback ==
  \E s \in Sessions :
    /\ drv[s] = "loopPending"
    /\ Commit(loopCallback(W, s))

\* The helper calls onFrame when the video element it was given shows a new
\* frame, which takes a stream attached to the element.
OnFrame ==
  \E s \in Sessions :
    /\ drv[s] = "helperIdle"
    /\ els.srcObject # 0
    /\ Commit(onFrame(W, s))

SendDone ==
  \E s \in Sessions, r \in Results, goesOn \in BOOLEAN :
    /\ drv[s] \in Sending
    /\ Commit(sendDone(W, s, r, goesOn))

CaptureClick ==
  /\ ~els.captureBtn
  /\ Commit(captureBtnClick(W))

\* One Save at a time: the next click is taken once the encoder has answered.
SaveClick ==
  /\ ~els.saveBtn
  /\ pendingBlob = "none"
  /\ \E o \in {"blob", "null", "throw"} : Commit(saveBtnClick(W, o))

ToBlobDone ==
  /\ pendingBlob # "none"
  /\ Commit(toBlobDone(W))

ResetClick ==
  /\ ~els.resetBtn
  /\ Commit(resetBtnClick(W))

WindowResize ==
  /\ build = "main"
  /\ Commit(windowResize(W))

Next ==
  \/ StartClick
  \/ LoadMetaDone
  \/ ImageEvent
  \/ CameraStartDone
  \/ GetUserMediaDone
  \/ PlayDone
  \/ LoopCallback
  \/ OnFrame
  \/ SendDone
  \/ CaptureClick
  \/ SaveClick
  \/ ToBlobDone
  \/ ResetClick
  \/ WindowResize

Spec == Init /\ [][Next]_vars

\* The composite pass as a function of its inputs: a SlotSpec, a window
\* width and the anchors of a detected face are chosen, and one pass
\* computes its numbers from them.
InitGeo ==
  /\ build \in Builds
  /\ env = [Camera |-> FALSE, guards |-> TRUE]
  /\ PageLoaded
  /\ geo \in [solved : {FALSE}, meta : Metas, innerWidth : InnerWidths, src : SrcAnchors]
  /\ sw = NoWorker

SolvePass ==
  /\ ~geo.solved
  /\ geo' = [meta |-> geo.meta, innerWidth |-> geo.innerWidth, src |-> geo.src,
             canvas |-> canvasOf(build, geo.meta, geo.innerWidth)]
            @@ solvePass(build, geo.meta, canvasOf(build, geo.meta, geo.innerWidth), geo.src)
  /\ UNCHANGED <<build, env, state, els, surface, ctx, baseImg, maskImg, lastGumError,
                 pc, sid, drv, live, nextStream, pendingBlob, lastEvt, hist, sw>>

NextGeo == SolvePass

SpecGeo == InitGeo /\ [][NextGeo]_vars

\* The service worker from its registration on, beside a page that does
\* nothing.
InitSW ==
  /\ build = "main"
  /\ env = [Camera |-> FALSE, guards |-> TRUE]
  /\ PageLoaded
  /\ geo = Unsolved
  /\ sw \in [phase : {"parsed"}, caches : OldCaches, todo : {{}}, removed : {{}},
             resp : {[url |-> "none", from |-> "none"]}]

PageUnchanged ==
  UNCHANGED <<build, env, state, els, surface, ctx, baseImg, maskImg, lastGumError,
              pc, sid, drv, live, nextStream, pendingBlob, lastEvt, hist, geo>>

InstallStart ==
  /\ sw.phase = "parsed"
  /\ sw' = installStart(sw)
  /\ PageUnchanged

InstallDone ==
  /\ sw.phase = "installing"
  /\ \E ok \in BOOLEAN : sw' = installDone(sw, ok)
  /\ PageUnchanged

ActivateStart ==
  /\ sw.phase = "installed"
  /\ sw' = activateStart(sw)
  /\ PageUnchanged

CacheDeleted ==
  /\ sw.phase = "activating"
  /\ \E key \in sw.todo : sw' = cacheDeleted(sw, key)
  /\ PageUnchanged

ActivateDone ==
  /\ sw.phase = "activating"
  /\ sw.todo = {}
  /\ sw' = activateDone(sw)
  /\ PageUnchanged

\* Fetch events are dispatched to the worker once it is activated.
FetchEvent ==
  /\ sw.phase = "activated"
  /\ \E url \in Requests, net \in {"network", "error"} : sw' = fetchHandler(sw, url, net)
  /\ PageUnchanged

NextSW ==
  \/ InstallStart
  \/ InstallDone
  \/ ActivateStart
  \/ CacheDeleted
  \/ ActivateDone
  \/ FetchEvent

SpecSW == InitSW /\ [][NextSW]_vars

\* The Start button is enabled only while no Start handler is suspended.
StartHandlerSingle == ~els.startBtn => pc.at = "idle"

----------------------------------------------------------------------------
(* Properties.                                                             *)

FrameCallbacks == {"result", "loopCallback", "onFrame"}

\* C1: in main.js, from Reset until the next Start click, every results,
\* loop and onFrame callback finds state.running false and neither draws nor
\* sends a frame, so the surface stays as Reset left it (only a resize of the
\* window, which clears it, touches it).
C1_NoWriteAfterReset ==
  [][(build = "main" /\ hist.afterReset /\ hist'.afterReset) =>
       /\ ~state'.running
       /\ ~lastEvt'.drew
       /\ ~lastEvt'.sent
       /\ lastEvt'.kind \in FrameCallbacks => surface' = surface
       /\ surface' = surface \/ lastEvt'.kind = "resize"]_vars

\* C1 witness: a detector result is delivered between Reset and the next
\* Start click.
C1_Witness ==
  /\ build = "main"
  /\ hist.afterReset
  /\ lastEvt.kind = "result"
  /\ lastEvt.res = "face"

\* C2: in main.js, after a composite pass for a result without landmarks the
\* surface is exactly background + guide, whatever it held before.
C2_NoFaceIsBackgroundGuide ==
  (build = "main" /\ lastEvt.kind = "result" /\ lastEvt.drew
     /\ lastEvt.res = "noface")
    => surface = BackgroundGuide

\* C3: a composite pass is atomic: a pass that raises an error leaves the
\* surface as the previous pass left it.
C3_PassAtomic ==
  (build = "main" /\ lastEvt.kind = "result" /\ lastEvt.drew /\ lastEvt.threw)
    => lastEvt.surfKept

\* C4: after every composite pass the compositing mode is source-over and
\* the transform is the one in force before the pass.
C4_ContextRestored ==
  (lastEvt.kind = "result" /\ lastEvt.drew)
    => (ctx.gco = "source-over" /\ lastEvt.ctxKept)

\* C5: with a failed asset (SlotSpec fetch, background or mask image) a Start
\* attempt never ends in Running, in either build: once the handler has
\* finished, state.running is false, the banner shows the failure, Start is
\* enabled again and Capture and Reset are still disabled.
C5_AssetFailureNeverRuns ==
  (/\ sid > 0
   /\ pc.at = "idle"
   /\ \/ baseImg = "broken"
      \/ maskImg = "broken"
      \/ (lastEvt.kind = "startError" /\ lastEvt.cause = "meta"))
    => /\ ~state.running
       /\ els.banner = "Error"
       /\ ~els.startBtn
       /\ els.captureBtn
       /\ els.resetBtn

\* The message category the claim gives for an error name.
ExpectedCategory(name) ==
  IF name = "NotAllowedError" THEN "permission"
  ELSE IF name = "NotFoundError" THEN "not-found"
  ELSE IF name = "NotReadableError" THEN "in-use"
  ELSE "unknown"

\* C6: in main.js a failed camera acquisition never reaches the Start
\* handler's catch; the handler ends with the banner showing the category of
\* the error that ended the last attempt, state.running false and Start
\* enabled again.
C6_CameraFailureClassified ==
  /\ (build = "main" /\ lastEvt.kind = "startError")
       => lastEvt.cause \notin ErrorNames
  /\ lastEvt.kind = "cameraFail"
       => /\ build = "main"
          /\ lastEvt.cause \in ErrorNames
          /\ els.banner = ExpectedCategory(lastEvt.cause)
          /\ ~state.running
          /\ ~els.startBtn
          /\ pc.at = "idle"

\* C6 witness: a Start attempt ends because the camera is in use.
C6_Witness ==
  /\ lastEvt.kind = "cameraFail"
  /\ lastEvt.cause = "NotReadableError"
  /\ els.banner = "in-use"

\* C7: in main.js, when every acquisition of a Start attempt is refused with
\* NotAllowedError, no frame was sent to the detector and no composite pass
\* ran between the Start click and the return to Idle (and no stream was
\* attached: none was handed out).
C7_DeniedStartIsInert ==
  (build = "main" /\ lastEvt.kind = "cameraFail" /\ lastEvt.denied)
    => ~lastEvt.active

\* C8: whenever Save is enabled the session is Captured: state.running is
\* true and Capture was clicked since the last successful Start, with no
\* Reset since.
C8_SaveOnlyWhenCaptured ==
  ~els.saveBtn => (state.running /\ hist.phase = "Captured")

\* C8 witness: Save has just been enabled by a Capture click.
C8_Witness ==
  /\ ~els.saveBtn
  /\ lastEvt.kind = "capture"
  /\ sid > 1

\* C9: Reset returns the session to Idle in one step: state.running false,
\* every stream the session acquired stopped, none attached to the video
\* element, the surface fully cleared, Capture, Save and Reset disabled and
\* Start enabled.
C9_ResetReturnsToIdle ==
  lastEvt.kind = "reset"
    => /\ ~state.running
       /\ hist.streams \cap live = {}
       /\ els.srcObject = 0
       /\ surface = Blank
       /\ els.captureBtn /\ els.saveBtn /\ els.resetBtn
       /\ ~els.startBtn

C11_ExportFailureReported ==
  [][(/\ build = "main"
      /\ \/ (lastEvt'.kind = "save" /\ lastEvt'.threw)
         \/ (lastEvt'.kind = "saved" /\ lastEvt'.res = "null"))
       => /\ els'.banner = "Save failed"
          /\ state'.running = state.running
          /\ live' = live
          /\ els'.captureBtn = els.captureBtn
          /\ els'.saveBtn = els.saveBtn
          /\ els'.resetBtn = els.resetBtn]_vars

\* C12: a driver has at most one frame at the detector, each result answers
\* exactly that frame and its composite pass is over within the handler that
\* received it, so the frames of a session are drawn in the order sent and
\* no handler runs between the steps of a pass.
C12_FramesInOrder ==
  [][/\ lastEvt'.kind = "result"
          => /\ drv[lastEvt'.sess] \in Sending
             /\ drv'[lastEvt'.sess] \notin Sending
             /\ \A s \in Sessions \ {lastEvt'.sess} : drv'[s] = drv[s]
     /\ \A s \in Sessions :
          (drv'[s] \in Sending /\ drv'[s] # drv[s])
            => (drv[s] \notin Sending /\ lastEvt'.sent)]_vars

\* C12 witness: a result of one session is drawn while a frame of another
\* session is still at the detector.
C12_Witness ==
  /\ lastEvt.kind = "result"
  /\ lastEvt.drew
  /\ drv[lastEvt.sess] \notin Sending
  /\ \E s \in Sessions : drv[s] \in Sending

\* C13: in main.js, while state.running is true the SlotSpec and the detector are
\* loaded, and every composite pass runs with the SlotSpec loaded and with
\* both images loaded successfully.
C13_PassHasLoadedAssets ==
  build = "main" =>
    /\ state.running => (state.meta /\ state.faceMesh)
    /\ (lastEvt.kind = "result" /\ lastEvt.drew)
         => (state.meta /\ baseImg = "ok" /\ maskImg = "ok")

\* Two composite passes in a row for the same result.
PassTwice(w, r) == drawComposite([drawComposite(w, r) EXCEPT !.threw = FALSE], r)

\* C14: the composite pass of main.js is idempotent and keeps no cross-frame state:
\* wherever a pass is about to run (state.running, a frame at the detector),
\* two passes in a row for the same result leave the surface one pass
\* leaves, and the surface a pass leaves is the one it leaves on a blank
\* surface with the context in its default state.
C14_PassIdempotent ==
  (build = "main" /\ state.running /\ \E s \in Sessions : drv[s] \in Sending) =>
    \A r \in Results :
      /\ PassTwice(W, r).surface = drawComposite(W, r).surface
      /\ drawComposite(W, r).surface
           = drawComposite([W EXCEPT !.surface = Blank, !.ctx = CleanCtx], r).surface

\* C15: state.meta is assigned at most once: a fetch is started only while
\* it is null, only the fetch's success sets it, nothing clears it, and a
\* failed fetch leaves it null.
C15_MetaLoadedOnce ==
  [][/\ state.meta => state'.meta
     /\ (state'.meta /\ ~state.meta) => pc.at = "meta"
     /\ pc'.at = "meta" => ~state'.meta
     /\ (lastEvt'.kind = "startError" /\ lastEvt'.cause = "meta")
          => ~state'.meta]_vars

\* C15 witness: a second Start, after a Reset, runs on the SlotSpec the
\* first one loaded.
C15_Witness ==
  /\ sid > 1
  /\ state.meta
  /\ hist.phase = "Running"

\* C20: in main.js a loop callback, an onFrame call or a detector result of a session
\* that Reset has cancelled neither draws nor sends a frame, also after
\* Start was clicked again.
C20_CancelledSessionInert ==
  (build = "main" /\ lastEvt.kind \in FrameCallbacks /\ lastEvt.sess # 0
     /\ lastEvt.sess < sid)
    => (~lastEvt.drew /\ ~lastEvt.sent)

\* The source and destination eye vectors of the pass in geo, and the
\* source eye distance.
SrcVec == Pt(geo.src.eyeR.x - geo.src.eyeL.x, geo.src.eyeR.y - geo.src.eyeL.y)
DstVec == Pt(geo.dstR.x - geo.dstL.x, geo.dstR.y - geo.dstL.y)
SrcEyeDist == Hypot(SrcVec.x, SrcVec.y)

MaxOf(m, n) == IF m > n THEN m ELSE n

\* C16: the source eye distance is guarded to at least one pixel: the scale
\* is dDist / max(1, |srcVec|), so it is finite and never above dDist.
C16_ScaleGuarded ==
  geo.solved =>
    /\ geo.scale.den > 0
    /\ geo.scale.den = MaxOf(Px(1), SrcEyeDist)
    /\ geo.scale.num * Px(1) <= geo.scale.num * geo.scale.den

\* The side the claim gives the sampled square: max(64, eyeDistance *
\* roi_scale), roi_scale 1.5 when the SlotSpec has none.
ClaimedSide ==
  MaxOf(Px(64),
        (SrcEyeDist * (IF geo.meta.roi_scale = NotGiven THEN 3 ELSE geo.meta.roi_scale))
          \div 2)

\* Scenario A: source eyes (100,200), (200,200); slot eyes (300,400),
\* (450,400), roi_scale 1.5; the canvas at image_size.
ScenarioA ==
  /\ geo.src.eyeL = Pt(Px(100), Px(200))
  /\ geo.src.eyeR = Pt(Px(200), Px(200))
  /\ geo.meta.eye_left = Pt(Px(300), Px(400))
  /\ geo.meta.eye_right = Pt(Px(450), Px(400))
  /\ geo.meta.roi_scale = 3
  /\ geo.canvas = geo.meta.image_size

\* C17: the sampled region is a square of side max(64, eyeDistance *
\* roi_scale) centred on the source eye midpoint, the offscreen buffer has
\* that side, and the ROI and the mask are drawn at that side; Scenario A
\* gives angle 0, scale 1.5 and side 150.
C17_RoiSquare ==
  geo.solved =>
    /\ geo.sampleSide = ClaimedSide
    /\ geo.sampleOrigin2 = Pt(geo.src.eyeL.x + geo.src.eyeR.x - ClaimedSide,
                              geo.src.eyeL.y + geo.src.eyeR.y - ClaimedSide)
    /\ geo.offSide = ClaimedSide
    /\ geo.roiDrawSide = ClaimedSide
    /\ geo.maskDrawSide = ClaimedSide
    /\ ScenarioA => /\ geo.angle = [q |-> 0, a |-> 0]
                    /\ 2 * geo.scale.num = 3 * geo.scale.den
                    /\ geo.sampleSide = Px(150)

RECURSIVE TimesAlpha(_, _)
\* v turned by a times the angle of (4, 3): numerators over the denominator den.
TimesAlpha(v, a) ==
  IF a = 0 THEN v
  ELSE IF a > 0
  THEN TimesAlpha([x |-> 4 * v.x - 3 * v.y, y |-> 3 * v.x + 4 * v.y, den |-> 5 * v.den], a - 1)
  ELSE TimesAlpha([x |-> 4 * v.x + 3 * v.y, y |-> 4 * v.y - 3 * v.x, den |-> 5 * v.den], a + 1)

\* v rotated by the angle and scaled by the scale, as numerators over den.
rotateScale(v, angle, scale) ==
  LET k == angle.q % 4
      turned == CASE k = 0 -> Pt(v.x, v.y)
                  [] k = 1 -> Pt(-v.y, v.x)
                  [] k = 2 -> Pt(-v.x, -v.y)
                  [] k = 3 -> Pt(v.y, -v.x)
      r == TimesAlpha([x |-> turned.x, y |-> turned.y, den |-> 1], angle.a)
  IN [x |-> r.x * scale.num, y |-> r.y * scale.num, den |-> r.den * scale.den]

\* A slot anchor scaled from image_size space into the canvas.
InCanvas(p) ==
  Pt((p.x * geo.canvas.x) \div geo.meta.image_size.x,
     (p.y * geo.canvas.y) \div geo.meta.image_size.y)

\* C18: for a source pair with eyeL.x < eyeR.x the computed angle and scale
\* take srcVec to dstVec; a vertical source pair against a horizontal
\* destination pair gives -pi/2; and the destination pair is the slot's eye
\* anchors scaled from image_size space into the canvas.
C18_TransformReproduces ==
  geo.solved =>
    /\ SrcVec.x > 0 =>
         LET r == rotateScale(SrcVec, geo.angle, geo.scale)
         IN r.x = DstVec.x * r.den /\ r.y = DstVec.y * r.den
    /\ (SrcVec.x = 0 /\ SrcVec.y > 0 /\ DstVec.y = 0 /\ DstVec.x > 0)
         => geo.angle = [q |-> -1, a |-> 0]
    /\ geo.dstL = InCanvas(geo.meta.eye_left)
    /\ geo.dstR = InCanvas(geo.meta.eye_right)

\* C19: once the install has succeeded every listed asset is in the cache
\* CACHE_NAME; once activate is done no other cache exists; every fetch is
\* answered from the cache when an entry matches and from the network
\* otherwise, and answering changes no cache.
C19_WorkerCaches ==
  [][/\ sw'.phase \in {"installed", "activating", "activated"}
          => (CACHE_NAME \in DOMAIN sw'.caches /\ ASSETS \subseteq sw'.caches[CACHE_NAME])
     /\ sw'.phase = "activated" => DOMAIN sw'.caches = {CACHE_NAME}
     /\ (sw.phase = "activated" /\ sw'.resp # sw.resp)
          => /\ sw'.caches = sw.caches
             /\ sw'.resp.from = "cache" <=> sw'.resp.url \in sw.caches[CACHE_NAME]
             /\ sw'.resp.from \in {"cache", "network", "error"}]_vars

\* C19 witness: after an activate that deleted an older cache, one request is
\* answered from the cache; the cache still lacks an entry the network
\* answered before.
C19_Witness ==
  /\ sw.phase = "activated"
  /\ sw.removed # {}
  /\ sw.resp.from = "cache"
  /\ sw.resp.url \in ASSETS
  /\ "./new.png" \notin sw.caches[CACHE_NAME]

\* A driver that will still send: its loop has a callback pending or a frame
\* at the detector, or it is a started Camera helper.
Alive == {"loopPending", "loopSending", "helperIdle", "helperSending"}

\* C21: at most one detector send is in flight, and while state.running is
\* true at most one frame driver is alive: the driver of an earlier session
\* has ended before a later session's driver runs.
C21_SingleDriver ==
  /\ Cardinality({s \in Sessions : drv[s] \in Sending}) <= 1
  /\ state.running => Cardinality({s \in Sessions : drv[s] \in Alive}) <= 1

\* C22: in main.js, whenever the session is Idle with state.running false
\* (after a failed Start or after Reset), no stream the program acquired is
\* still live.
C22_IdleHoldsNoStream ==
  (build = "main" /\ sid > 0 /\ pc.at = "idle" /\ ~state.running) => live = {}

====
